---------------------------- MODULE Spec2Model ----------------------------
(***************************************************************************)
(* Prompt Engineering Toolkit (server.js): the template transformers, the  *)
(* heuristic evaluator, and the five HTTP handlers                         *)
(*   POST /api/generate-variations, POST /api/evaluate,                    *)
(*   GET /api/list-models, POST /api/gemini, POST /api/export.             *)
(*                                                                         *)
(* A JavaScript string is a sequence of one-character strings.  An         *)
(* optional request field is a record [present, val].                      *)
(***************************************************************************)
EXTENDS Integers, Sequences, FiniteSets, TLC

VARIABLES
    apiKey,   \* process.env.GEMINI_API_KEY: TRUE when a credential is configured
    clock,    \* the wall clock in milliseconds, as Date.now() reads it
    files,    \* the exports directory: file name -> payload written
    nextId,   \* number of identifiers uuidv4() has handed out
    call,     \* the request a synchronous handler (or evaluatePrompt) served last
    exportLog,\* the exports written so far: project name, Date.now() and file name
    net       \* the /api/gemini and /api/list-models requests, newest last

vars == <<apiKey, clock, files, nextId, call, exportLog, net>>

----------------------------------------------------------------------------
(* Bounds of the model. *)

MaxPromptLen == 3     \* generated prompts have at most this many characters
MaxKeywords == 3      \* keyword sequences have at most this many entries
MaxTests == 1         \* test-case sequences have at most this many entries
MaxCalls == 2         \* synchronous requests served in one behaviour
MaxNet == 2           \* network-backed requests accepted in one behaviour
StartClock == 9       \* Date.now() when the server starts
ClockSpan == 2        \* the clock advances at most this far past StartClock

----------------------------------------------------------------------------
(* Characters. *)

UpperChars ==
    <<"A","B","C","D","E","F","G","H","I","J","K","L","M",
      "N","O","P","Q","R","S","T","U","V","W","X","Y","Z">>

LowerChars ==
    <<"a","b","c","d","e","f","g","h","i","j","k","l","m",
      "n","o","p","q","r","s","t","u","v","w","x","y","z">>

DigitChars == <<"0","1","2","3","4","5","6","7","8","9">>

Range(f) == {f[i] : i \in DOMAIN f}

UpperSet == Range(UpperChars)
LowerSet == Range(LowerChars)

\* \w of a RegExp without the u flag: [A-Za-z0-9_].
WordChars == UpperSet \cup LowerSet \cup Range(DigitChars) \cup {"_"}

IsWordChar(c) == c \in WordChars

\* String.prototype.toUpperCase on one lower-case letter.
ToUpper == [c \in LowerSet |-> UpperChars[CHOOSE i \in DOMAIN LowerChars : LowerChars[i] = c]]

\* The i flag compares characters after Canonicalize (toUpperCase).
Canonicalize(c) == IF c \in LowerSet THEN ToUpper[c] ELSE c

\* \s of a RegExp, and the white space String.prototype.trim removes.
WhiteSpace == {" ", "\n", "\t", "\r"}

RECURSIVE Join(_, _)
\* Array.prototype.join: the strings of parts with sep between them.
Join(parts, sep) ==
    IF parts = <<>> THEN <<>>
    ELSE IF Len(parts) = 1 THEN parts[1]
    ELSE parts[1] \o sep \o Join(Tail(parts), sep)

RECURSIVE Repeat(_, _)
Repeat(s, n) == IF n = 0 THEN <<>> ELSE s \o Repeat(s, n - 1)

RECURSIVE ToDecimal(_)
\* Number to string, as a template literal formats a non-negative integer.
ToDecimal(n) ==
    IF n < 10 THEN <<DigitChars[n + 1]>>
    ELSE ToDecimal(n \div 10) \o <<DigitChars[(n % 10) + 1]>>

----------------------------------------------------------------------------
(* Regular expressions: the patterns server.js builds are '\b', literal    *)
(* characters, backslash-escaped characters and (when left unescaped) '.'. *)

RegExpSpecials ==
    {".", "*", "+", "?", "^", "$", "{", "}", "(", ")", "|", "[", "]", "\\"}

RECURSIVE escapeRegExp(_)
\* string.replace(/[.*+?^${}()|[\]\\]/g, '\\$&')
escapeRegExp(string) ==
    IF string = <<>> THEN <<>>
    ELSE (IF Head(string) \in RegExpSpecials
          THEN <<"\\", Head(string)>>
          ELSE <<Head(string)>>) \o escapeRegExp(Tail(string))

RECURSIVE ParsePattern(_)
\* new RegExp(source): the atoms of a pattern.
ParsePattern(source) ==
    IF source = <<>> THEN <<>>
    ELSE IF Head(source) = "\\" /\ Len(source) >= 2
    THEN <<(IF source[2] = "b"
            THEN [t |-> "boundary", c |-> ""]
            ELSE [t |-> "char", c |-> source[2]])>>
         \o ParsePattern(SubSeq(source, 3, Len(source)))
    ELSE <<(IF Head(source) = "."
            THEN [t |-> "any", c |-> ""]
            ELSE [t |-> "char", c |-> Head(source)])>>
         \o ParsePattern(Tail(source))

\* \b at offset pos of s (pos characters lie before it): exactly one of the
\* two neighbouring positions holds a word character.
IsWordBoundary(s, pos) ==
    (pos >= 1 /\ IsWordChar(s[pos])) # (pos < Len(s) /\ IsWordChar(s[pos + 1]))

RECURSIVE MatchEnd(_, _, _, _)
\* The offset where atoms k.. of the pattern stop matching s from offset pos
\* (case-insensitively), or -1 when they do not match there.
MatchEnd(atoms, k, s, pos) ==
    IF k > Len(atoms) THEN pos
    ELSE IF atoms[k].t = "boundary"
    THEN IF IsWordBoundary(s, pos) THEN MatchEnd(atoms, k + 1, s, pos) ELSE -1
    ELSE IF pos >= Len(s) THEN -1
    ELSE IF atoms[k].t = "any"
    THEN IF s[pos + 1] \in {"\n", "\r"} THEN -1
         ELSE MatchEnd(atoms, k + 1, s, pos + 1)
    ELSE IF Canonicalize(s[pos + 1]) = Canonicalize(atoms[k].c)
    THEN MatchEnd(atoms, k + 1, s, pos + 1)
    ELSE -1

Letters == UpperSet \cup LowerSet

LetterVariants == [c \in Letters |-> {d \in Letters : Canonicalize(d) = Canonicalize(c)}]

\* The characters the i flag takes for c.
CaseVariants(c) == IF c \in Letters THEN LetterVariants[c] ELSE {c}

\* The offsets of s where a match of the pattern can start: when the first
\* atom that consumes a character is a literal, the offsets of that literal.
StartOffsets(atoms, s) ==
    LET width == {k \in DOMAIN atoms : atoms[k].t # "boundary"}
    IN IF width = {} THEN 0..Len(s)
       ELSE LET k == CHOOSE j \in width : \A i \in width : j <= i
            IN IF atoms[k].t = "char"
               THEN LET first == CaseVariants(atoms[k].c)
                    IN {p \in 0..(Len(s) - 1) : s[p + 1] \in first}
               ELSE 0..Len(s)

\* new RegExp(source, 'i').test(s)
RegExpTest(source, s) ==
    LET atoms == ParsePattern(source)
    IN \E pos \in StartOffsets(atoms, s) : MatchEnd(atoms, 1, s, pos) >= 0

\* new RegExp('\\b' + w + '\\b', 'i').test(prompt)
WordTest(w, prompt) == RegExpTest(<<"\\", "b">> \o w \o <<"\\", "b">>, prompt)


\* Where the pattern stops matching s from each offset (-1: no match there).
MatchEnds(atoms, s) == [p \in 0..(Len(s) - 1) |-> MatchEnd(atoms, 1, s, p)]

RECURSIVE ReplaceFrom(_, _, _, _)
\* The part of s.replace(re, repl) from offset pos on, for a global RegExp
\* whose matches are never empty: the text up to the leftmost match, repl,
\* and the same again from where that match ends.
ReplaceFrom(s, ends, pos, repl) ==
    LET hits == {p \in pos..(Len(s) - 1) : ends[p] > p}
    IN IF hits = {} THEN SubSeq(s, pos + 1, Len(s))
       ELSE LET p == CHOOSE q \in hits : \A r \in hits : q <= r
            IN SubSeq(s, pos + 1, p) \o repl \o ReplaceFrom(s, ends, ends[p], repl)

\* s.replace(/\bword\b/ig, repl)
ReplaceWord(s, word, repl) ==
    ReplaceFrom(s, MatchEnds(ParsePattern(<<"\\", "b">> \o word \o <<"\\", "b">>), s),
                0, repl)

RECURSIVE TrimStart(_)
TrimStart(s) ==
    IF s # <<>> /\ Head(s) \in WhiteSpace THEN TrimStart(Tail(s)) ELSE s

RECURSIVE TrimEnd(_)
TrimEnd(s) ==
    IF s # <<>> /\ s[Len(s)] \in WhiteSpace
    THEN TrimEnd(SubSeq(s, 1, Len(s) - 1)) ELSE s

\* String.prototype.trim
Trim(s) == TrimEnd(TrimStart(s))

----------------------------------------------------------------------------
(* Prompt variation utilities. *)

ExpertRole ==
    <<"Y","o","u"," ","a","r","e"," ","a","n"," ","e","x","p","e","r","t"," ",
      "a","s","s","i","s","t","a","n","t"," ","w","i","t","h"," ","d","e","e",
      "p"," ","d","o","m","a","i","n"," ","k","n","o","w","l","e","d","g","e",
      ".">>

addSystemRole(prompt, role) ==
    <<"S","y","s","t","e","m",":"," ">> \o role
    \o <<"\n","U","s","e","r",":"," ">> \o prompt

\* Example i of the few-shot block.
FewShotExample(ex, i) ==
    <<"E","x","a","m","p","l","e"," ">> \o ToDecimal(i)
    \o <<":","\n","I","n","p","u","t",":"," ">> \o ex.input
    \o <<"\n","O","u","t","p","u","t",":"," ">> \o ex.output

addFewShot(prompt, examples) ==
    IF Len(examples) = 0 THEN prompt
    ELSE LET fewShot ==
                 Join([i \in 1..Len(examples) |-> FewShotExample(examples[i], i)],
                      <<"\n","\n">>)
         IN fewShot
            \o <<"\n","\n","N","o","w",","," ","g","i","v","e","n"," ","t","h",
                 "e"," ","u","s","e","r"," ","i","n","p","u","t",","," ","r","e",
                 "s","p","o","n","d"," ","c","o","n","c","i","s","e","l","y",".",
                 "\n","U","s","e","r",":"," ">>
            \o prompt

tightenInstructions(prompt, constraints) ==
    LET c == IF Len(constraints) > 0
             THEN Join(constraints, <<";"," ">>) \o <<";"," ">>
             ELSE <<>>
    IN <<"I","n","s","t","r","u","c","t","i","o","n",":"," ">> \o c
       \o <<"B","e"," ","c","o","n","c","i","s","e"," ","a","n","d"," ","p","r",
            "e","c","i","s","e",".","\n","U","s","e","r",":"," ">>
       \o prompt

ParaphraseLimit == 120
ParaphraseKeep == 110

paraphrasePrompt(prompt) ==
    LET p1 == Trim(ReplaceWord(prompt, <<"p","l","e","a","s","e">>, <<>>))
        p2 == ReplaceWord(p1, <<"C","r","e","a","t","e">>,
                          <<"G","e","n","e","r","a","t","e">>)
        p3 == ReplaceWord(p2, <<"D","e","s","c","r","i","b","e">>,
                          <<"S","u","m","m","a","r","i","z","e">>)
    IN IF Len(p3) > ParaphraseLimit
       THEN SubSeq(p3, 1, ParaphraseKeep) \o <<".",".",".">>
       ELSE p3

injectKeywords(prompt, keywords) ==
    IF Len(keywords) = 0 THEN prompt
    ELSE prompt \o <<"\n","\n">>
         \o <<"K","e","y","w","o","r","d","s"," ","t","o"," ","i","n","c","l",
              "u","d","e",":"," ">>
         \o Join(keywords, <<","," ">>) \o <<".">>

----------------------------------------------------------------------------
(* Heuristic evaluation. *)

\* Math.round(n / d) for integers n and d > 0: floor(n / d + 1/2).
RoundDiv(n, d) == (2 * n + d) \div (2 * d)

Max(a, b) == IF a >= b THEN a ELSE b
Min(a, b) == IF a <= b THEN a ELSE b
Abs(a) == IF a >= 0 THEN a ELSE -a

specificityWords ==
    << <<"e","x","a","c","t">>,
       <<"c","o","n","c","i","s","e">>,
       <<"s","t","e","p","-","b","y","-","s","t","e","p">>,
       <<"n","u","m","b","e","r","e","d">>,
       <<"l","i","m","i","t">>,
       <<"o","n","l","y">>,
       <<"f","o","r","m","a","t">>,
       <<"j","s","o","n">> >>

TargetLength == 120

\* Clarity without Math.max(10, ...).
ClarityWithoutFloor(length) == Min(100, RoundDiv(200 - Abs(TargetLength - length), 2))

\* Math.max(10, Math.min(100, Math.round(100 - Math.abs(120 - length) * 0.5)))
Clarity(length) == Max(10, Min(100, RoundDiv(200 - Abs(TargetLength - length), 2)))

\* Math.min(100, specificityCount * 25 + 20)
Specificity(prompt) ==
    LET specificityCount ==
            Cardinality({i \in DOMAIN specificityWords :
                            WordTest(specificityWords[i], prompt)})
    IN Min(100, specificityCount * 25 + 20)

RECURSIVE FoundKeywords(_, _)
\* keywords.filter(k => new RegExp('\\b' + escapeRegExp(k) + '\\b','i').test(prompt))
FoundKeywords(prompt, keywords) ==
    IF keywords = <<>> THEN <<>>
    ELSE (IF WordTest(escapeRegExp(Head(keywords)), prompt)
          THEN <<Head(keywords)>>
          ELSE <<>>) \o FoundKeywords(prompt, Tail(keywords))

\* One test case passes when every mustInclude term is found as a word.
TestPasses(t, prompt) ==
    \A i \in DOMAIN t.mustInclude : WordTest(escapeRegExp(t.mustInclude[i]), prompt)

TestScore(prompt, testCases) ==
    IF Len(testCases) > 0
    THEN LET pass == Cardinality({i \in DOMAIN testCases :
                                     TestPasses(testCases[i], prompt)})
         IN RoundDiv(pass * 100, Len(testCases))
    ELSE 0

\* Math.round((clarity + specificity + keywordCoverage + testScore)/4)
Overall(clarity, specificity, keywordCoverage, testScore) ==
    RoundDiv(clarity + specificity + keywordCoverage + testScore, 4)

evaluatePrompt(prompt, keywords, testCases) ==
    LET clarity == Clarity(Len(prompt))
        specificity == Specificity(prompt)
        foundKeywords == FoundKeywords(prompt, keywords)
        keywordCoverage ==
            IF Len(keywords) > 0
            THEN RoundDiv(Len(foundKeywords) * 100, Len(keywords))
            ELSE 0
        testScore == TestScore(prompt, testCases)
    IN [clarity |-> clarity,
        specificity |-> specificity,
        keywordCoverage |-> keywordCoverage,
        testScore |-> testScore,
        overall |-> Overall(clarity, specificity, keywordCoverage, testScore),
        foundKeywords |-> foundKeywords]

----------------------------------------------------------------------------
(* Inputs. *)

\* Every sequence over S of length at most n.
SeqsUpTo(S, n) == UNION {[1..k -> S] : k \in 0..n}

\* A word character in both cases and a RegExp special that is no word
\* character.
PromptAlphabet == {"a", "A", "."}

ScenarioPrompt ==
    <<"P","l","e","a","s","e"," ","p","r","o","v","i","d","e"," ","o","u","t",
      "p","u","t"," ","i","n"," ","e","x","a","c","t"," ","J","S","O","N"," ",
      "f","o","r","m","a","t",","," ","l","i","m","i","t"," ","t","o"," ","3",
      " ","i","t","e","m","s",".">>

AllSpecificPrompt ==
    <<"e","x","a","c","t"," ","c","o","n","c","i","s","e"," ","s","t","e","p",
      "-","b","y","-","s","t","e","p"," ","n","u","m","b","e","r","e","d"," ",
      "l","i","m","i","t"," ","o","n","l","y"," ","f","o","r","m","a","t"," ",
      "j","s","o","n">>

\* 120 characters: the target length.
TargetPrompt == Repeat(<<"o","n","l","y"," ","j","s","o","n"," ">>, 12)

\* 150 characters holding "Please Create a summary".
LongPrompt ==
    Repeat(<<"P","l","e","a","s","e"," ","C","r","e","a","t","e"," ","a"," ",
             "s","u","m","m","a","r","y","."," ">>, 6)

\* 400 characters: far from the target length.
HugePrompt == Repeat(<<"a","+","+"," ">>, 100)

CatsPrompt ==
    <<"T","e","l","l"," ","m","e"," ","a","b","o","u","t"," ","c","a","t","s">>

CppPrompt ==
    <<"D","e","s","c","r","i","b","e"," ","c","+","+"," ","o","n","l","y">>

JsonKeyword == <<"J","S","O","N">>
CatKeyword == <<"c","a","t">>
CppKeyword == <<"c","+","+">>

\* Generated inputs: every short prompt with every short keyword and
\* test-case sequence.
ShortKeywordPool == {<<"a">>, <<"A", "a">>, <<"a", ".">>}

ShortTestCasePool ==
    {[mustInclude |-> <<>>], [mustInclude |-> << <<"a">>, <<"A", ".">> >>]}

ShortInputs ==
    SeqsUpTo(PromptAlphabet, MaxPromptLen)
    \X SeqsUpTo(ShortKeywordPool, MaxKeywords)
    \X SeqsUpTo(ShortTestCasePool, MaxTests)

\* Chosen inputs: prompts near and far from the target length, with none,
\* some and more than four of the specificity words.
PromptPool ==
    {ScenarioPrompt, AllSpecificPrompt, TargetPrompt, LongPrompt, HugePrompt,
     CatsPrompt, CppPrompt}

KeywordLists ==
    {<<>>, <<JsonKeyword>>, <<CatKeyword, CppKeyword, JsonKeyword>>}

TestCaseLists ==
    {<<>>,
     <<[mustInclude |-> <<JsonKeyword>>]>>,
     <<[mustInclude |-> <<JsonKeyword>>], [mustInclude |-> <<>>],
       [mustInclude |-> <<CppKeyword, CatKeyword>>]>>}

PoolInputs == PromptPool \X KeywordLists \X TestCaseLists

EvalInputs == ShortInputs \cup PoolInputs

NoEvaluation ==
    [clarity |-> -1, specificity |-> -1, keywordCoverage |-> -1, testScore |-> -1,
     overall |-> -1, foundKeywords |-> <<>>]

----------------------------------------------------------------------------
(* evaluatePrompt on its own: Init draws the arguments, the one step        *)
(* applies the function.                                                   *)

EvalInit ==
    /\ apiKey = FALSE
    /\ clock = 0
    /\ files = [dir |-> FALSE, entries |-> <<>>]
    /\ nextId = 0
    /\ exportLog = <<>>
    /\ net = <<>>
    /\ \E in \in EvalInputs :
           call = [op |-> "evaluatePrompt", done |-> FALSE, prompt |-> in[1],
                   keywords |-> in[2], testCases |-> in[3],
                   result |-> NoEvaluation]

ApplyEvaluatePrompt ==
    /\ call.op = "evaluatePrompt"
    /\ ~call.done
    /\ call' = [call EXCEPT
                  !.done = TRUE,
                  !.result = evaluatePrompt(call.prompt, call.keywords,
                                            call.testCases)]
    /\ UNCHANGED <<apiKey, clock, files, nextId, exportLog, net>>

EvalNext == ApplyEvaluatePrompt

SpecEval == EvalInit /\ [][EvalNext]_vars

----------------------------------------------------------------------------
(* Request fields and responses. *)

Absent == [present |-> FALSE, val |-> <<>>]
Some(v) == [present |-> TRUE, val |-> v]

\* !x for a request field that is undefined or a string.
Falsy(field) == ~field.present \/ field.val = <<>>

\* const { x = dflt } = req.body
OrDefault(field, dflt) == IF field.present THEN field.val ELSE dflt

NoCall == [op |-> "none", n |-> 0]

\* The n-th identifier uuidv4() hands out (n counted from 0).  A version-4
\* UUID is 122 random bits; the model takes the library at its contract,
\* an identifier never handed out before.
uuidv4(n) == n + 1

----------------------------------------------------------------------------
(* POST /api/generate-variations *)

\* Push with one identifier generated up front and reused for every variation.
PushReusingId(st, type, transformer, basePrompt, prompt) ==
    [variations |-> Append(st.variations,
                           [id |-> uuidv4(st.ids - Len(st.variations)),
                            type |-> type, prompt |-> prompt]),
     ids |-> st.ids + 1,
     invoked |-> Append(st.invoked, [fn |-> transformer, on |-> basePrompt])]

\* variations.push({ id: uuidv4(), type, prompt: transformer(basePrompt, ..) }),
\* together with the record that the transformer ran on basePrompt.
Push(st, type, transformer, basePrompt, prompt) ==
    [variations |-> Append(st.variations,
                           [id |-> uuidv4(st.ids), type |-> type, prompt |-> prompt]),
     ids |-> st.ids + 1,
     invoked |-> Append(st.invoked, [fn |-> transformer, on |-> basePrompt])]

\* Lines 78-108: the five pushes, in order.
BuildVariations(basePrompt, keywords, examples, constraints, ids) ==
    LET s0 == [variations |-> <<>>, ids |-> ids, invoked |-> <<>>]
        s1 == Push(s0, "system-role:expert", "addSystemRole", basePrompt,
                   addSystemRole(basePrompt, ExpertRole))
        s2 == Push(s1, "few-shot", "addFewShot", basePrompt,
                   addFewShot(basePrompt, examples))
        s3 == Push(s2, "tight-constraints", "tightenInstructions", basePrompt,
                   tightenInstructions(basePrompt, constraints))
        s4 == Push(s3, "paraphrase", "paraphrasePrompt", basePrompt,
                   paraphrasePrompt(basePrompt))
        s5 == Push(s4, "keyword-injection", "injectKeywords", basePrompt,
                   injectKeywords(basePrompt, keywords))
    IN s5

\* The test cases the handler hands to evaluatePrompt for every variation.
VariationTestCases == <<>>

\* Score with a test case that has nothing to include handed to evaluatePrompt.
ScoreWithTestCase(variations, keywords) ==
    [i \in DOMAIN variations |->
        [id |-> variations[i].id,
         type |-> variations[i].type,
         prompt |-> variations[i].prompt,
         evaluation |-> evaluatePrompt(variations[i].prompt, keywords,
                                       <<[mustInclude |-> <<>>]>>)]]

\* variations.map(v => ({ ...v, evaluation: evaluatePrompt(v.prompt, keywords, []) }))
Score(variations, keywords) ==
    [i \in DOMAIN variations |->
        [id |-> variations[i].id,
         type |-> variations[i].type,
         prompt |-> variations[i].prompt,
         evaluation |-> evaluatePrompt(variations[i].prompt, keywords,
                                       VariationTestCases)]]

\* The evaluatePrompt calls the map makes: one per variation.
ScoreInvoked(variations, keywords) ==
    [i \in DOMAIN variations |->
        [fn |-> "evaluatePrompt", on |-> variations[i].prompt,
         keywords |-> keywords, testCases |-> VariationTestCases]]

\* The guard written as basePrompt === undefined.
GenerateRejectsAbsentOnly(basePrompt) == ~basePrompt.present

\* if (!basePrompt) return res.status(400).json({ error: 'basePrompt required' })
GenerateRejects(basePrompt) == Falsy(basePrompt)

\* The examples and constraints of a request: none of either, or two of each.
RequestExtras ==
    {[examples |-> <<>>, constraints |-> <<>>],
     [examples |-> <<[input |-> <<"2","+","2">>, output |-> <<"4">>],
                     [input |-> <<"h","i">>, output |-> <<"j","s","o","n">>]>>,
      constraints |-> << <<"n","u","m","b","e","r","e","d">>,
                         <<"l","i","m","i","t"," ","3">> >>]}

BasePrompts ==
    {Absent, Some(<<>>), Some(CppPrompt), Some(ScenarioPrompt), Some(LongPrompt)}

RequestKeywords == {<<>>, <<CatKeyword, CppKeyword, JsonKeyword>>}

GenerateVariations ==
    /\ call.n < MaxCalls
    /\ \E basePrompt \in BasePrompts, keywords \in RequestKeywords,
          extras \in RequestExtras :
         LET n == call.n + 1
             examples == extras.examples
             constraints == extras.constraints
             req == [basePrompt |-> basePrompt, keywords |-> keywords,
                     examples |-> examples, constraints |-> constraints]
         IN IF GenerateRejects(basePrompt)
            THEN /\ call' = [op |-> "generate-variations", n |-> n, req |-> req,
                             status |-> 400, error |-> "basePrompt required",
                             variations |-> <<>>, invoked |-> <<>>,
                             idsBefore |-> nextId]
                 /\ nextId' = nextId
            ELSE \E built \in {BuildVariations(basePrompt.val, keywords, examples,
                                               constraints, nextId)} :
                    /\ call' = [op |-> "generate-variations", n |-> n, req |-> req,
                                status |-> 200, error |-> "",
                                variations |-> Score(built.variations, keywords),
                                invoked |-> built.invoked
                                            \o ScoreInvoked(built.variations, keywords),
                                idsBefore |-> nextId]
                    /\ nextId' = built.ids
    /\ UNCHANGED <<apiKey, clock, files, exportLog, net>>

----------------------------------------------------------------------------
(* POST /api/evaluate *)

\* if (!prompt) return res.status(400).json({ error: 'prompt required' })
EvaluateRejects(prompt) == Falsy(prompt)

Evaluate ==
    /\ call.n < MaxCalls
    /\ \E prompt \in BasePrompts, keywords \in RequestKeywords,
          testCases \in TestCaseLists :
         LET n == call.n + 1
             req == [prompt |-> prompt, keywords |-> keywords,
                     testCases |-> testCases]
         IN IF EvaluateRejects(prompt)
            THEN call' = [op |-> "evaluate", n |-> n, req |-> req, status |-> 400,
                          error |-> "prompt required", evaluation |-> NoEvaluation]
            ELSE call' = [op |-> "evaluate", n |-> n, req |-> req, status |-> 200,
                          error |-> "",
                          evaluation |-> evaluatePrompt(prompt.val, keywords,
                                                        testCases)]
    /\ UNCHANGED <<apiKey, clock, files, nextId, exportLog, net>>

----------------------------------------------------------------------------
(* POST /api/export *)

DefaultProjectName == <<"p","r","o","m","p","t","-","p","a","c","k">>

RECURSIVE CollapseWhiteSpace(_)
\* projectName.replace(/\s+/g, '_'): each run of white space becomes one '_'.
CollapseWhiteSpace(name) ==
    IF name = <<>> THEN <<>>
    ELSE IF Head(name) \in WhiteSpace
    THEN <<"_">> \o CollapseWhiteSpace(TrimStart(name))
    ELSE <<Head(name)>> \o CollapseWhiteSpace(Tail(name))

\* The file name without its Date.now() suffix.
ExportFileNameWithoutTime(projectName, now) ==
    CollapseWhiteSpace(projectName) \o <<".","j","s","o","n">>

\* `${projectName.replace(/\s+/g,'_')}_${Date.now()}.json`
ExportFileName(projectName, now) ==
    CollapseWhiteSpace(projectName) \o <<"_">> \o ToDecimal(now)
    \o <<".","j","s","o","n">>

ProjectNames ==
    {Absent, Some(<<"a"," ","b">>), Some(<<"a"," ","\t","b">>), Some(<<"a","_","1">>)}

ExportBodies ==
    {[basePrompt |-> Absent, variations |-> <<>>],
     [basePrompt |-> Some(CatsPrompt),
      variations |-> <<[id |-> 1, type |-> "few-shot", prompt |-> CatsPrompt]>>]}

\* What the file system does with mkdirSync and writeFileSync.
FsOutcomes == {"ok", "mkdir throws", "write throws"}

Export ==
    /\ call.n < MaxCalls
    /\ \E projectName \in ProjectNames, body \in ExportBodies, d \in {0, 1},
          fs \in FsOutcomes :
         LET n == call.n + 1
             name == OrDefault(projectName, DefaultProjectName)
             \* new Date() on line 220, and Date.now() on line 221, d ms later
             exportedAt == clock
             now == clock + d
             payload == [metadata |-> "{}", basePrompt |-> body.basePrompt,
                         variations |-> body.variations, exportedAt |-> exportedAt]
             fname == ExportFileName(name, now)
             req == [projectName |-> projectName, body |-> body]
         IN /\ now <= StartClock + ClockSpan
            /\ clock' = now
            /\ fs = "mkdir throws" => ~files.dir
            /\ IF fs = "ok"
               THEN /\ files' = [dir |-> TRUE,
                                 entries |-> (fname :> payload) @@ files.entries]
                    /\ exportLog' = Append(exportLog,
                                           [name |-> CollapseWhiteSpace(name),
                                            now |-> now, file |-> fname])
                    /\ call' = [op |-> "export", n |-> n, req |-> req,
                                status |-> 200, fault |-> FALSE,
                                file |-> <<"/","e","x","p","o","r","t","s","/">>
                                         \o fname]
               ELSE \* the exception leaves the handler; nothing is written
                    /\ files' = [files EXCEPT !.dir = @ \/ fs = "write throws"]
                    /\ exportLog' = exportLog
                    /\ call' = [op |-> "export", n |-> n, req |-> req,
                                status |-> 500, fault |-> TRUE, file |-> <<>>]
    /\ UNCHANGED <<apiKey, nextId, net>>

\* Time passes.
Tick ==
    /\ clock < StartClock + ClockSpan
    /\ clock' = clock + 1
    /\ UNCHANGED <<apiKey, files, nextId, call, exportLog, net>>

----------------------------------------------------------------------------
(* The server after app.listen.  The handlers fall into three groups that  *)
(* share no state: the variation pipeline (uuidv4), the export writer (the *)
(* clock and the exports directory) and the two network-backed handlers    *)
(* (the credential).  Each group is a specification over the same Init.    *)

Init ==
    /\ apiKey \in BOOLEAN
    /\ clock = StartClock
    /\ files \in {[dir |-> FALSE, entries |-> <<>>], [dir |-> TRUE, entries |-> <<>>]}
    /\ nextId = 0
    /\ call = NoCall
    /\ exportLog = <<>>
    /\ net = <<>>

Next ==
    \/ GenerateVariations
    \/ Evaluate

\* The pipeline reads neither the credential nor the exports directory.
PipelineInit == Init /\ ~apiKey /\ ~files.dir

Spec == PipelineInit /\ [][Next]_vars

ExportNext ==
    \/ Export
    \/ Tick

\* The export writer does not read the credential.
ExportInit == Init /\ ~apiKey

SpecExport == ExportInit /\ [][ExportNext]_vars

----------------------------------------------------------------------------
(* GET /api/list-models and POST /api/gemini.  Each request is a record of *)
(* net: where the handler stands (pc), the outbound requests it issued,    *)
(* what the upstream answered, the exception thrown inside the try block,  *)
(* the results it sent to its caller, and whether an exception left the    *)
(* handler uncaught.                                                       *)

DefaultModel == "gemini-2.5-flash-lite"

MissingKeyError == "GEMINI_API_KEY environment variable not set"

ModelHint ==
    "Model not found. Call GET /api/list-models to see available models and exact model IDs."

\* A result sent with res.status(http).json({...}); a field the code leaves
\* out is "unset", 0, "" or FALSE.
Result(http, ok, status, body, error, hint, extracted, raw) ==
    [http |-> http, ok |-> ok, status |-> status, body |-> body, error |-> error,
     hint |-> hint, extracted |-> extracted, raw |-> raw]

\* res.status(400).json({ error })
ErrorResult(error) == Result(400, "unset", 0, "", error, "", "", "")

\* res.status(resp.status).json({ ok: false, status: resp.status, body })
UpstreamErrorResult(status, body) == Result(status, "false", status, body, "", "", "", "")

\* The same with the hint of lines 184-189.
NotFoundResult(body) == Result(404, "false", 404, body, "", ModelHint, "", "")

\* res.status(500).json({ ok: false, error: err.message })
FailureResult(message) == Result(500, "false", 0, "", message, "", "", "")

\* res.json({ ok: true, ... })
SuccessResult(extracted, raw) == Result(200, "true", 0, "", "", "", extracted, raw)

\* The handler sends a result and returns.
Send(r, result) == [r EXCEPT !.sent = Append(@, result), !.pc = "done"]

\* An exception with this message is thrown inside the try block.
Throw(r, message) == [r EXCEPT !.thrown = message]

\* No catch clause: the exception leaves the handler.
CatchRethrows(r) == [r EXCEPT !.fault = TRUE, !.pc = "done"]

\* catch (err) { res.status(500).json({ ok: false, error: err.message }) }
Catch(r) == Send(r, FailureResult(r.thrown))

\* resp.ok: a status in 200..299.
RespOk(status) == status >= 200 /\ status <= 299

\* What the upstream may answer.
Statuses == {200, 404, 503}

Bodies ==
    {"<html>", "{candidates:[{content:[{parts:[{text}]}]}]}",
     "{candidates:[{content:{parts:[{text}]}}]}",
     "{output:[{content:[{parts:[{text}]}]}]}", "{error:{}}"}

\* JSON.parse / resp.json(): whether the body is JSON at all.
IsJson(body) == body # "<html>"

\* Lines 198-209: the text of the first candidate or output when its content
\* is a list of parts; the pretty-printed body when neither shape is there,
\* or when content is no list and content.map throws inside the inner try.
ExtractText(body) ==
    IF body \in {"{candidates:[{content:[{parts:[{text}]}]}]}",
                 "{output:[{content:[{parts:[{text}]}]}]}"}
    THEN "text"
    ELSE "JSON.stringify(json, null, 2)"

NetPrompts == {Absent, Some(<<>>), Some(CatsPrompt)}

NetModels == {Absent, Some("no-such-model")}

NewRequest(kind, prompt, model) ==
    [kind |-> kind, prompt |-> prompt, model |-> model, pc |-> "start",
     fetches |-> <<>>, status |-> 0, body |-> "", thrown |-> "", sent |-> <<>>,
     fault |-> FALSE, extraction |-> FALSE]

\* GeminiStart with the credential checked before the prompt.
GeminiStartKeyFirst(r) ==
    IF ~apiKey THEN Send(r, ErrorResult(MissingKeyError))
    ELSE IF Falsy(r.prompt) THEN Send(r, ErrorResult("prompt required"))
    ELSE [r EXCEPT !.pc = "fetch",
                   !.fetches = Append(@, [method |-> "POST", model |-> r.model,
                                          text |-> r.prompt.val])]

\* Lines 151-178, up to the await of fetch.
GeminiStart(r) ==
    IF Falsy(r.prompt) THEN Send(r, ErrorResult("prompt required"))
    ELSE IF ~apiKey THEN Send(r, ErrorResult(MissingKeyError))
    ELSE [r EXCEPT !.pc = "fetch",
                   !.fetches = Append(@, [method |-> "POST", model |-> r.model,
                                          text |-> r.prompt.val])]

GeminiRequest ==
    /\ Len(net) < MaxNet
    /\ \E prompt \in NetPrompts, model \in NetModels :
         net' = Append(net, GeminiStart(NewRequest("gemini", prompt,
                                                   OrDefault(model, DefaultModel))))
    /\ UNCHANGED <<apiKey, clock, files, nextId, call, exportLog>>

\* Lines 127-135, up to the await of fetch.
ListModelsStart(r) ==
    IF ~apiKey THEN Send(r, ErrorResult(MissingKeyError))
    ELSE [r EXCEPT !.pc = "fetch",
                   !.fetches = Append(@, [method |-> "GET", model |-> "", text |-> <<>>])]

ListModelsRequest ==
    /\ Len(net) < MaxNet
    /\ net' = Append(net, ListModelsStart(NewRequest("list-models", Absent, "")))
    /\ UNCHANGED <<apiKey, clock, files, nextId, call, exportLog>>

\* fetch rejects: the catch clause runs.
FetchRejected(r) == Catch(Throw(r, "fetch failed"))

\* fetch resolves with a response of this status: /api/gemini reads the body
\* as text when the status is no success and as JSON otherwise;
\* /api/list-models always reads it as text.
FetchResolved(r, status) ==
    [r EXCEPT !.status = status,
              !.pc = IF r.kind = "gemini" /\ RespOk(status) THEN "json" ELSE "text"]

FetchSettles ==
    /\ \E i \in DOMAIN net :
         /\ net[i].pc = "fetch"
         /\ \/ net' = [net EXCEPT ![i] = FetchRejected(net[i])]
            \/ \E status \in Statuses :
                 net' = [net EXCEPT ![i] = FetchResolved(net[i], status)]
    /\ UNCHANGED <<apiKey, clock, files, nextId, call, exportLog>>

\* resp.text() or resp.json() rejects because the body stream broke.
BodyRejected(r) == Catch(Throw(r, "terminated"))

\* GeminiBody with the hint attached to every upstream error.
GeminiBodyHintAlways(r, body) ==
    IF r.pc = "text"
    THEN Send([r EXCEPT !.body = body],
              [UpstreamErrorResult(r.status, body) EXCEPT !.hint = ModelHint])
    ELSE IF ~IsJson(body)
    THEN Catch(Throw([r EXCEPT !.body = body], "Unexpected token"))
    ELSE Send([r EXCEPT !.body = body, !.extraction = TRUE],
              SuccessResult(ExtractText(body), body))

\* Lines 180-211 after the body arrived.
GeminiBody(r, body) ==
    IF r.pc = "text"
    THEN IF r.status = 404
         THEN Send([r EXCEPT !.body = body], NotFoundResult(body))
         ELSE Send([r EXCEPT !.body = body], UpstreamErrorResult(r.status, body))
    ELSE IF ~IsJson(body)
    THEN Catch(Throw([r EXCEPT !.body = body], "Unexpected token"))
    ELSE Send([r EXCEPT !.body = body, !.extraction = TRUE],
              SuccessResult(ExtractText(body), body))

\* Lines 136-140 after the body arrived.
ListModelsBody(r, body) ==
    IF ~RespOk(r.status)
    THEN Send([r EXCEPT !.body = body], UpstreamErrorResult(r.status, body))
    ELSE IF ~IsJson(body)
    THEN Catch(Throw([r EXCEPT !.body = body], "Unexpected token"))
    ELSE Send([r EXCEPT !.body = body], SuccessResult("", body))

BodySettles ==
    /\ \E i \in DOMAIN net :
         /\ net[i].pc \in {"text", "json"}
         /\ \/ net' = [net EXCEPT ![i] = BodyRejected(net[i])]
            \/ \E body \in Bodies :
                 net' = [net EXCEPT ![i] =
                           IF net[i].kind = "gemini"
                           THEN GeminiBody(net[i], body)
                           ELSE ListModelsBody(net[i], body)]
    /\ UNCHANGED <<apiKey, clock, files, nextId, call, exportLog>>

NetNext ==
    \/ GeminiRequest
    \/ ListModelsRequest
    \/ FetchSettles
    \/ BodySettles

\* The network-backed handlers do not touch the exports directory.
NetInit == Init /\ ~files.dir

SpecNet == NetInit /\ [][NetNext]_vars

----------------------------------------------------------------------------
(* Properties of evaluatePrompt (checked under SpecEval). *)

Evaluated == call.op = "evaluatePrompt" /\ call.done

SubScoreSum(e) == e.clarity + e.specificity + e.keywordCoverage + e.testScore

\* n is x rounded as Math.round does, for x = num / den with den > 0:
\* n - 1/2 <= x < n + 1/2.
IsRounded(n, num, den) ==
    (2 * n - 1) * den <= 2 * num /\ 2 * num < (2 * n + 1) * den

\* C1: for every prompt, keyword sequence and test-case sequence, clarity,
\* specificity, keywordCoverage, testScore and overall of the Evaluation are
\* integers in [0,100], and overall is the mean of the four sub-scores,
\* rounded.
ScoresInRangeAndOverallIsMean ==
    Evaluated =>
        LET e == call.result
        IN /\ {e.clarity, e.specificity, e.keywordCoverage, e.testScore,
               e.overall} \subseteq 0..100
           /\ IsRounded(e.overall, SubScoreSum(e), 4)

\* An evaluation whose specificity is cut to 100 and whose mean falls on a
\* half, so that the rounding decides overall.
SpecificityClampedMeanOnHalf ==
    /\ Evaluated
    /\ call.result.specificity = 100
    /\ SubScoreSum(call.result) % 4 = 2
    /\ call.result.keywordCoverage = 33

\* k occurs in s at offset i, case-insensitively, with a non-word character
\* or a string edge on each side.
WholeWordAt(k, s, i) ==
    /\ i + Len(k) <= Len(s)
    /\ \A j \in 1..Len(k) : Canonicalize(s[i + j]) = Canonicalize(k[j])
    /\ i = 0 \/ ~IsWordChar(s[i])
    /\ i + Len(k) = Len(s) \/ ~IsWordChar(s[i + Len(k) + 1])

OccursAsWholeWord(k, s) == \E i \in 0..Len(s) : WholeWordAt(k, s, i)

\* C8: foundKeywords is exactly the keywords, in their order, that occur in
\* the prompt case-insensitively as a substring bounded on each side by a
\* non-word character or a string edge, and keywordCoverage is
\* round(100 * |foundKeywords| / |keywords|), or 0 when there are no keywords.
FoundKeywordsAreWholeWordOccurrences ==
    Evaluated =>
        LET found == SelectSeq(call.keywords,
                               LAMBDA k : OccursAsWholeWord(k, call.prompt))
            n == Len(call.keywords)
        IN /\ call.result.foundKeywords = found
           /\ n = 0 => call.result.keywordCoverage = 0
           /\ n > 0 => IsRounded(call.result.keywordCoverage, 100 * Len(found), n)

----------------------------------------------------------------------------
(* Properties of the variation pipeline and of /api/evaluate (under Spec). *)

Generated == call.op = "generate-variations"

VariantTypes ==
    <<"system-role:expert", "few-shot", "tight-constraints", "paraphrase",
      "keyword-injection">>

Transformers ==
    <<"addSystemRole", "addFewShot", "tightenInstructions", "paraphrasePrompt",
      "injectKeywords">>

\* The identifiers handed out before the request call was served.
EarlierIds == {uuidv4(k) : k \in 0..(call.idsBefore - 1)}

\* C2: for a non-empty basePrompt, generateVariations returns exactly five
\* Variants in the order system-role:expert, few-shot, tight-constraints,
\* paraphrase, keyword-injection; each transformer has run exactly once, on
\* the base prompt; the five identifiers differ from each other and from
\* every identifier of an earlier invocation; each Variant carries the
\* Evaluation of its own prompt.
FiveVariantsInOrderWithFreshIds ==
    (Generated /\ ~Falsy(call.req.basePrompt)) =>
        LET vs == call.variations
        IN /\ call.status = 200
           /\ Len(vs) = 5
           /\ \A i \in 1..5 : vs[i].type = VariantTypes[i]
           /\ \A i \in 1..5 :
                /\ call.invoked[i].fn = Transformers[i]
                /\ call.invoked[i].on = call.req.basePrompt.val
           /\ \A i \in 1..5 :
                Cardinality({j \in DOMAIN call.invoked :
                               call.invoked[j].fn = Transformers[i]}) = 1
           /\ \A i, j \in 1..5 : i # j => vs[i].id # vs[j].id
           /\ \A i \in 1..5 : vs[i].id \notin EarlierIds
           /\ \A i \in 1..5 :
                vs[i].evaluation = evaluatePrompt(vs[i].prompt, call.req.keywords, <<>>)

\* A second successful invocation, with examples and constraints, after a
\* first one handed out identifiers.
SecondGenerationAfterFirst ==
    /\ Generated
    /\ call.status = 200
    /\ call.idsBefore = 5
    /\ call.req.examples # <<>>
    /\ Len(call.variations) = 5

\* C3: with basePrompt absent or empty, generateVariations fails with the
\* input error before any transformer runs: no transformer and no evaluation
\* is invoked, no identifier is generated and no variation list is returned.
EmptyBasePromptRejectedUpFront ==
    (Generated /\ Falsy(call.req.basePrompt)) =>
        /\ call.status = 400
        /\ call.error = "basePrompt required"
        /\ call.invoked = <<>>
        /\ call.variations = <<>>
        /\ nextId = call.idsBefore

\* A request whose basePrompt is present and empty was rejected after an
\* earlier request had been served.
EmptyBasePromptWasRejected ==
    /\ Generated
    /\ call.req.basePrompt = Some(<<>>)
    /\ call.status = 400
    /\ call.n = 2
    /\ nextId = 5

\* C9: evaluate takes the empty prompt as valid input: with prompt "" it
\* returns an Evaluation, its clarity computed against length 0 (40), and
\* only an absent prompt is an error.
EvaluateAcceptsEmptyPrompt ==
    call.op = "evaluate" =>
        /\ call.status = 400 <=> ~call.req.prompt.present
        /\ call.req.prompt = Some(<<>>) =>
             /\ call.status = 200
             /\ call.evaluation.clarity = 40

\* C10: every Variant of generateVariations is evaluated with an empty
\* test-case list, so its testScore is 0 and its overall at most 75, and the
\* keywords of the evaluation are the caller's, the same for all five.
VariantsScoredWithoutTestCases ==
    (Generated /\ call.status = 200) =>
        /\ \A i \in DOMAIN call.variations :
             /\ call.variations[i].evaluation.testScore = 0
             /\ call.variations[i].evaluation.overall <= 75
        /\ \A j \in DOMAIN call.invoked :
             call.invoked[j].fn = "evaluatePrompt" =>
                /\ call.invoked[j].testCases = <<>>
                /\ call.invoked[j].keywords = call.req.keywords
        /\ Cardinality({j \in DOMAIN call.invoked :
                          call.invoked[j].fn = "evaluatePrompt"}) = 5

\* Five Variants evaluated against the caller's three keywords, two of which
\* the keyword-injection Variant holds.
VariantsScoredAgainstKeywords ==
    /\ Generated
    /\ call.status = 200
    /\ Len(call.req.keywords) = 3
    /\ call.variations[5].evaluation.keywordCoverage = 67
    /\ call.variations[5].evaluation.testScore = 0

----------------------------------------------------------------------------
(* Properties of /api/gemini and /api/list-models (under SpecNet). *)

GeminiRequests == {i \in DOMAIN net : net[i].kind = "gemini"}

\* C4: a testPrompt request that reached the network call never ends in an
\* uncaught fault and sends exactly one result; when the network call or the
\* reading or parsing of the body threw, that result is the generic failure
\* (ok = false with the error message), not a success.
GeminiSendsOneResultAndCatches ==
    \A i \in GeminiRequests :
        LET r == net[i]
        IN r.fetches # <<>> =>
             /\ ~r.fault
             /\ r.pc = "done" => Len(r.sent) = 1
             /\ r.pc # "done" => r.sent = <<>>
             /\ r.thrown # "" =>
                  /\ r.pc = "done"
                  /\ r.sent[1].http = 500
                  /\ r.sent[1].ok = "false"
                  /\ r.sent[1].error = r.thrown
                  /\ r.sent[1].extracted = ""

\* The upstream answered 200 with a body that is no JSON: resp.json() threw
\* and the caller got the failure result.
MalformedBodyWasCaught ==
    \E i \in GeminiRequests :
        /\ net[i].status = 200
        /\ net[i].body = "<html>"
        /\ net[i].thrown = "Unexpected token"
        /\ net[i].pc = "done"
        /\ Len(net[i].sent) = 1
        /\ net[i].sent[1].http = 500

\* C5: a testPrompt or listModels request issues at most one outbound
\* request, whatever the upstream does, and none when it is rejected up
\* front: testPrompt without a prompt gets the input error (checked before
\* the credential), and either operation without a credential gets the
\* configuration error.
AtMostOneFetchNoneWhenRejected ==
    \A i \in DOMAIN net :
        LET r == net[i]
        IN /\ Len(r.fetches) <= 1
           /\ (r.kind = "gemini" /\ Falsy(r.prompt)) =>
                /\ r.fetches = <<>>
                /\ Len(r.sent) = 1
                /\ r.sent[1].http = 400
                /\ r.sent[1].error = "prompt required"
           /\ (~apiKey /\ (r.kind = "list-models" \/ ~Falsy(r.prompt))) =>
                /\ r.fetches = <<>>
                /\ Len(r.sent) = 1
                /\ r.sent[1].http = 400
                /\ r.sent[1].error = MissingKeyError

\* With no credential configured, a testPrompt without a prompt got the
\* input error and a listModels got the configuration error.
RejectedUpFrontWithoutCredential ==
    /\ ~apiKey
    /\ \E i \in GeminiRequests :
         /\ ~net[i].prompt.present
         /\ net[i].sent # <<>>
         /\ net[i].sent[1].error = "prompt required"
    /\ \E j \in DOMAIN net :
         /\ net[j].kind = "list-models"
         /\ net[j].sent # <<>>
         /\ net[j].sent[1].error = MissingKeyError

\* The testPrompt requests the upstream answered with a non-success status,
\* once they are over.
UpstreamErrors ==
    {i \in GeminiRequests :
       net[i].status # 0 /\ ~RespOk(net[i].status) /\ net[i].pc = "done"}

\* The result carries the upstream status and body, ok = false, and the hint
\* exactly when the status is 404.
ForwardsUpstream(r) ==
    /\ Len(r.sent) = 1
    /\ r.sent[1].http = r.status
    /\ r.sent[1].status = r.status
    /\ r.sent[1].body = r.body
    /\ r.sent[1].ok = "false"
    /\ r.sent[1].hint = (IF r.status = 404 THEN ModelHint ELSE "")
    /\ r.sent[1].extracted = ""
    /\ ~r.extraction

\* C6 as stated: when the upstream answers testPrompt with a non-success
\* status, the result carries that status and the upstream body with
\* ok = false, and the model-listing hint if and only if the status is 404;
\* no text is extracted and no success result is produced.
UpstreamErrorAlwaysForwarded ==
    \A i \in UpstreamErrors : ForwardsUpstream(net[i])

\* C6, amended: the same whenever the body of the non-success answer has been
\* read; when reading it throws, the caller gets the generic failure result
\* (status 500, ok = false, the error message, no hint).  Either way no text
\* is extracted and no success result is produced.
UpstreamErrorForwardedOnceBodyRead ==
    \A i \in UpstreamErrors :
        LET r == net[i]
        IN IF r.thrown = ""
           THEN ForwardsUpstream(r)
           ELSE /\ Len(r.sent) = 1
                /\ r.sent[1].http = 500
                /\ r.sent[1].ok = "false"
                /\ r.sent[1].error = r.thrown
                /\ r.sent[1].hint = ""
                /\ r.sent[1].extracted = ""
                /\ ~r.extraction

\* Both kinds of upstream error were forwarded: a 404 with the hint and a 503
\* without it.
NotFoundAndUnavailableForwarded ==
    /\ \E i \in UpstreamErrors :
         /\ net[i].status = 404
         /\ net[i].thrown = ""
         /\ net[i].sent[1].hint = ModelHint
         /\ net[i].sent[1].body = "{error:{}}"
    /\ \E j \in UpstreamErrors :
         /\ net[j].status = 503
         /\ net[j].thrown = ""
         /\ net[j].sent[1].http = 503
         /\ net[j].sent[1].hint = ""

----------------------------------------------------------------------------
(* Properties of /api/export (under SpecExport). *)

\* The step is a successful export.
Exports == exportLog' # exportLog

\* The export this step logs.
Exported == exportLog'[Len(exportLog')]

\* Every file on disk before the step is there after it, unchanged.
EarlierRecordsKept ==
    \A f \in DOMAIN files.entries :
        /\ f \in DOMAIN files'.entries
        /\ files'.entries[f] = files.entries[f]

\* C7 as stated: exportPack never overwrites a prior export: each successful
\* call writes a file whose name differs from that of every earlier export,
\* so every Export Record written before stays on disk unchanged.
ExportNeverOverwrites ==
    [][Exports => (Exported.file \notin DOMAIN files.entries /\ EarlierRecordsKept)]_vars

\* C7, amended: a successful call whose project name (white space collapsed)
\* or Date.now() value differs from those of every earlier export writes a
\* file whose name differs from that of every earlier export, and every
\* Export Record written before stays on disk unchanged; a call that repeats
\* the name and the millisecond of an earlier export replaces that one file
\* and leaves the others unchanged.
ExportOverwritesOnlySameNameAndInstant ==
    [][Exports =>
         /\ \A f \in DOMAIN files.entries :
              f # Exported.file =>
                 f \in DOMAIN files'.entries /\ files'.entries[f] = files.entries[f]
         /\ (\A i \in DOMAIN exportLog :
               exportLog[i].name # Exported.name \/ exportLog[i].now # Exported.now)
            => (Exported.file \notin DOMAIN files.entries /\ EarlierRecordsKept)]_vars

\* Two exports of the same project name at different instants, both on disk,
\* the older one as it was written.
SameNameLaterExportKeptBoth ==
    /\ Len(exportLog) = 2
    /\ exportLog[1].name = exportLog[2].name
    /\ exportLog[1].now < exportLog[2].now
    /\ {exportLog[1].file, exportLog[2].file} \subseteq DOMAIN files.entries
    /\ exportLog[1].file # exportLog[2].file
    /\ files.entries[exportLog[1].file].exportedAt <= exportLog[1].now

============================================================================
